---- MODULE Spec2Model ----
(***************************************************************************)
(* Taskops chat backend: conversation store, task repository, tool         *)
(* executors and the agentic tool-calling loop of ChatService.             *)
(***************************************************************************)
EXTENDS Integers, Sequences, FiniteSets, TLC

(* ------------------------------------------------------------------ *)
(* Bounds of the model                                                  *)
(* ------------------------------------------------------------------ *)
MaxConvs == 1
MaxMsgs == 2
MaxStoreMsgs == 2
MaxTasks == 1
MaxOverCap == 1

(* ------------------------------------------------------------------ *)
(* Program constants                                                    *)
(* ------------------------------------------------------------------ *)
MAX_TOOL_CALLS_PER_TURN == 5
MAX_RETRIES_ON_INVALID_TOOL_CALL == 2
MAX_CONVERSATION_HISTORY == 50
TITLE_MAX == 200

Users == {"u1", "u2"}
NoUser == "nobody"

ConvIds == 1..MaxConvs
TaskIds == 1..MaxTasks
(* ids no create() ever returned *)
MissingConv == MaxConvs + 1
MissingTask == MaxTasks + 1

(* ------------------------------------------------------------------ *)
(* Small helpers                                                        *)
(* ------------------------------------------------------------------ *)
Chars(n, ch) == [k \in 1..n |-> ch]

RECURSIVE LStrip(_)
LStrip(s) == IF s # <<>> /\ Head(s) = " " THEN LStrip(Tail(s)) ELSE s

RECURSIVE RStrip(_)
RStrip(s) == IF s # <<>> /\ s[Len(s)] = " " THEN RStrip(SubSeq(s, 1, Len(s) - 1)) ELSE s

(* str.strip() on a string held as a sequence of characters *)
Strip(s) == RStrip(LStrip(s))

Min(a, b) == IF a <= b THEN a ELSE b

VARIABLES
    conversations,   \* conversations table: id -> [exists, user_id, updated_at]
    messages,        \* messages table in insertion (created_at) order
    next_conv,       \* number of conversation ids handed out so far
    tasks,           \* tasks table: id -> [exists, user_id, title, priority, completed]
    next_task,       \* number of task ids handed out so far
    last_op,         \* what the last direct store / tool call returned to its caller
    pc,              \* position of the chat request being served
    entry,           \* "router" (HTTP endpoint) or "service" (process_chat_message called directly)
    user_id,         \* caller of the chat request
    conversation_id, \* conversation the chat request names
    user_message,    \* message text handed to process_chat_message
    recent_messages, \* history loaded in step 3
    agent_messages,  \* `messages` argument of _invoke_agent_with_tools
    retry_count,     \* `retry_count` argument of _invoke_agent_with_tools
    completion_calls,\* client.chat.completions.create calls made by this turn
    response,        \* completion response of the current round
    idx,             \* loop index i over response.tool_calls
    tool_calls_made, \* local list of the current round
    returned,        \* pair returned by _invoke_agent_with_tools
    result,          \* dict returned by process_chat_message
    http_status      \* status code the endpoint answers with (0: none yet)

storeVars == <<conversations, messages, next_conv>>
taskVars == <<tasks, next_task>>
turnVars == <<pc, entry, user_id, conversation_id, user_message, recent_messages,
              agent_messages, retry_count, completion_calls, response, idx,
              tool_calls_made, returned, result, http_status>>
vars == <<conversations, messages, next_conv, tasks, next_task, last_op,
          pc, entry, user_id, conversation_id, user_message, recent_messages,
          agent_messages, retry_count, completion_calls, response, idx,
          tool_calls_made, returned, result, http_status>>

(* ------------------------------------------------------------------ *)
(* Conversation store                                                   *)
(* ------------------------------------------------------------------ *)
NoConversation == [exists |-> FALSE, user_id |-> NoUser, updated_at |-> 0]

(* result of a lookup that found nothing (Python None) *)
NotFound == [found |-> FALSE, id |-> MissingConv, user_id |-> NoUser]

Row(convs, cid) == IF cid \in DOMAIN convs THEN convs[cid] ELSE NoConversation

(* get_by_id with the user_id condition left out of the WHERE clause *)
get_by_id_AnyOwner(convs, cid, uid) ==
    IF Row(convs, cid).exists
    THEN [found |-> TRUE, id |-> cid, user_id |-> Row(convs, cid).user_id]
    ELSE NotFound

(* ConversationRepository.get_by_id: WHERE id = :id AND user_id = :user_id *)
get_by_id(convs, cid, uid) ==
    IF Row(convs, cid).exists /\ Row(convs, cid).user_id = uid
    THEN [found |-> TRUE, id |-> cid, user_id |-> Row(convs, cid).user_id]
    ELSE NotFound

(* get_conversation that looks the conversation up by id alone *)
get_conversation_ByIdOnly(convs, cid, uid) ==
    IF Row(convs, cid).exists
    THEN [found |-> TRUE, id |-> cid, user_id |-> Row(convs, cid).user_id]
    ELSE NotFound

(* ConversationService.get_conversation *)
get_conversation(convs, cid, uid) == get_by_id(convs, cid, uid)

FirstN(s, n) == SubSeq(s, 1, Min(Len(s), n))

(* Message.created_at of the row inserted last (0: empty table). The table is
   held in insertion order and the clock does not run backwards, so created_at
   never decreases along it. *)
LastStamp(msgs) == IF msgs = <<>> THEN 0 ELSE msgs[Len(msgs)].created_at

(* datetime.utcnow() at an insert: the clock has moved on since the last
   insert, or it still shows the same value *)
Stamps(msgs) == {LastStamp(msgs), LastStamp(msgs) + 1} \ {0}

(* the clock has moved on *)
Tick(msgs) == LastStamp(msgs) + 1

(* length of the leading run of rows that carry the created_at of the first *)
RECURSIVE SameStampPrefix(_)
SameStampPrefix(s) ==
    IF Len(s) <= 1 THEN Len(s)
    ELSE IF s[2].created_at # s[1].created_at THEN 1
    ELSE 1 + SameStampPrefix(Tail(s))

Rearrangements(s) == {[k \in 1..Len(s) |-> s[f[k]]] : f \in Permutations(1..Len(s))}

(* ORDER BY created_at ASC over rows s (given in insertion order): every row
   order the database may produce. Rows with equal created_at come in any
   order, the query names no second sort key. *)
RECURSIVE OrderByCreatedAt(_)
OrderByCreatedAt(s) ==
    IF s = <<>> THEN {<<>>}
    ELSE LET g == SameStampPrefix(s)
         IN {p \o r : p \in Rearrangements(SubSeq(s, 1, g)),
                      r \in OrderByCreatedAt(SubSeq(s, g + 1, Len(s)))}

(* get_recent_messages that selects by conversation_id alone *)
get_recent_messages_Unscoped(convs, msgs, cid, uid, limit) ==
    {FirstN(o, limit) :
        o \in OrderByCreatedAt(SelectSeq(msgs, LAMBDA m : m.conversation_id = cid))}

(* ConversationService.get_recent_messages: the lists the call can return *)
get_recent_messages(convs, msgs, cid, uid, limit) ==
    IF ~get_by_id(convs, cid, uid).found
    THEN {<<>>}
    ELSE {FirstN(o, limit) :
            o \in OrderByCreatedAt(SelectSeq(msgs, LAMBDA m : m.conversation_id = cid
                                                              /\ m.user_id = uid))}

(* a role check that lets only user messages through *)
ValidRole_UserOnly(role) == role \in {"user"}

(* role check at the top of ConversationService.append_message *)
ValidRole(role) == role \in {"user", "assistant"}

NewMessage(cid, uid, role, content, tcs, now) ==
    [conversation_id |-> cid, user_id |-> uid, role |-> role,
     content |-> content, tool_calls |-> tcs, created_at |-> now]

(* an append that writes over the row inserted last instead of adding one *)
append_message_EditsLast(convs, msgs, cid, uid, role, content, tcs, now) ==
    IF ~ValidRole(role)
    THEN [ok |-> FALSE, error |-> "ValueError", conversations |-> convs, messages |-> msgs]
    ELSE IF ~get_by_id(convs, cid, uid).found
    THEN [ok |-> FALSE, error |-> "ValueError", conversations |-> convs, messages |-> msgs]
    ELSE [ok |-> TRUE, error |-> "",
          conversations |-> [convs EXCEPT ![cid].updated_at = now],
          messages |-> IF msgs = <<>>
                       THEN <<NewMessage(cid, uid, role, content, tcs, now)>>
                       ELSE [msgs EXCEPT ![Len(msgs)] =
                                NewMessage(cid, uid, role, content, tcs, now)]]

(* an append that trusts the caller's earlier ownership check *)
append_message_Unchecked(convs, msgs, cid, uid, role, content, tcs, now) ==
    IF ~ValidRole(role)
    THEN [ok |-> FALSE, error |-> "ValueError", conversations |-> convs, messages |-> msgs]
    ELSE [ok |-> TRUE, error |-> "",
          conversations |-> [convs EXCEPT ![cid].updated_at = now],
          messages |-> Append(msgs, NewMessage(cid, uid, role, content, tcs, now))]

(* ConversationService.append_message: outcome and the tables after it. The
   message and the conversation's new updated_at (the clock reading, taken
   right after the message was built) sit in the session until the one
   commit() writes both; a rollback drops both. *)
append_message(convs, msgs, cid, uid, role, content, tcs, now) ==
    IF ~ValidRole(role)
    THEN [ok |-> FALSE, error |-> "ValueError", conversations |-> convs, messages |-> msgs]
    ELSE IF ~get_by_id(convs, cid, uid).found
    THEN [ok |-> FALSE, error |-> "ValueError", conversations |-> convs, messages |-> msgs]
    ELSE [ok |-> TRUE, error |-> "",
          conversations |-> [convs EXCEPT ![cid].updated_at = now],
          messages |-> Append(msgs, NewMessage(cid, uid, role, content, tcs, now))]

ConvMessages(msgs, cid) == SelectSeq(msgs, LAMBDA m : m.conversation_id = cid)

Roles(msgs) == [k \in 1..Len(msgs) |-> msgs[k].role]

(* ------------------------------------------------------------------ *)
(* Direct calls of the conversation store                               *)
(* ------------------------------------------------------------------ *)
StoreRoles == {"user", "assistant", "tool", "system"}
Limits == {1, MAX_CONVERSATION_HISTORY}

(* ConversationService.create_conversation *)
CreateConversation(u) ==
    /\ next_conv < MaxConvs
    /\ conversations' = [conversations EXCEPT ![next_conv + 1] =
                            [exists |-> TRUE, user_id |-> u, updated_at |-> 0]]
    /\ next_conv' = next_conv + 1
    /\ UNCHANGED <<messages, taskVars, turnVars, last_op>>

(* ConversationService.get_conversation *)
GetConversation(c, u) ==
    /\ last_op' = [op |-> "get_conversation", user_id |-> u, id |-> c,
                   result |-> get_conversation(conversations, c, u)]
    /\ UNCHANGED <<storeVars, taskVars, turnVars>>

(* ConversationService.get_recent_messages *)
GetRecentMessages(c, u, limit) ==
    /\ \E res \in get_recent_messages(conversations, messages, c, u, limit) :
          last_op' = [op |-> "get_recent_messages", user_id |-> u, id |-> c, limit |-> limit,
                      raised |-> FALSE, result |-> res]
    /\ UNCHANGED <<storeVars, taskVars, turnVars>>

(* ConversationService.append_message *)
AppendMessage(c, u, role, now) ==
    /\ Len(messages) < MaxStoreMsgs
    /\ now \in Stamps(messages)
    /\ LET r == append_message(conversations, messages, c, u, role, "x", <<>>, now)
       IN /\ conversations' = r.conversations
          /\ messages' = r.messages
          /\ last_op' = [op |-> "append_message", user_id |-> u, id |-> c, role |-> role,
                         ok |-> r.ok, error |-> r.error,
                         \* limit of a get_recent_messages(c, u, limit) call made
                         \* right before this one (0: the call before was another)
                         after |-> IF /\ last_op.op = "get_recent_messages"
                                      /\ last_op.id = c
                                      /\ last_op.user_id = u
                                   THEN last_op.limit ELSE 0]
    /\ UNCHANGED <<next_conv, taskVars, turnVars>>

(* a delete that leaves the conversation's messages behind *)
DeleteConversation_KeepsMessages(c, u) ==
    /\ LET found == get_by_id(conversations, c, u).found
       IN /\ conversations' = IF found THEN [conversations EXCEPT ![c] = NoConversation]
                              ELSE conversations
          /\ messages' = messages
    /\ UNCHANGED <<next_conv, taskVars, turnVars, last_op>>

(* ConversationRepository.delete: the messages go with the conversation *)
DeleteConversation(c, u) ==
    /\ LET found == get_by_id(conversations, c, u).found
       IN /\ conversations' = IF found THEN [conversations EXCEPT ![c] = NoConversation]
                              ELSE conversations
          /\ messages' = IF found
                         THEN SelectSeq(messages, LAMBDA m : m.conversation_id # c)
                         ELSE messages
    /\ UNCHANGED <<next_conv, taskVars, turnVars, last_op>>

(* ------------------------------------------------------------------ *)
(* Task repository (app/chat/repositories/task_repository.py)           *)
(* Modelled task columns: user_id, title, priority, completed.          *)
(* ------------------------------------------------------------------ *)
NoTask == [exists |-> FALSE, user_id |-> NoUser, title |-> <<>>,
           priority |-> "medium", completed |-> FALSE]

BuyMilk == <<"B", "u", "y", " ", "m", "i", "l", "k">>
Milk == <<"M", "i", "l", "k">>
LongTitle == Chars(TITLE_MAX + 1, "x")

(* a task id is an int; a negative one stands for a string UUID() rejects *)
MalformedId == -1
IsUuid(t) == t >= 0

TaskRow(tks, tid) == IF tid \in DOMAIN tks THEN tks[tid] ELSE NoTask

(* task lookup with the user_id condition left out *)
task_get_by_id_AnyOwner(tks, tid, uid) == TaskRow(tks, tid).exists

(* TaskRepository.get_by_id: WHERE id = :task_id AND user_id = :user_id *)
task_get_by_id(tks, tid, uid) == TaskRow(tks, tid).exists /\ TaskRow(tks, tid).user_id = uid

(* TaskRepository.complete *)
task_complete(tks, tid, uid) ==
    IF ~task_get_by_id(tks, tid, uid)
    THEN [found |-> FALSE, tasks |-> tks]
    ELSE [found |-> TRUE, tasks |-> [tks EXCEPT ![tid].completed = TRUE]]

(* TaskRepository.update: only the allowed fields present in `updates` are set *)
task_update(tks, tid, uid, updates) ==
    IF ~task_get_by_id(tks, tid, uid)
    THEN [found |-> FALSE, tasks |-> tks]
    ELSE [found |-> TRUE,
          tasks |-> [tks EXCEPT ![tid] =
                        [@ EXCEPT !.title = IF "title" \in DOMAIN updates
                                            THEN updates.title ELSE @,
                                  !.priority = IF "priority" \in DOMAIN updates
                                               THEN updates.priority ELSE @]]]

(* TaskRepository.delete *)
task_delete(tks, tid, uid) ==
    IF ~task_get_by_id(tks, tid, uid)
    THEN [found |-> FALSE, tasks |-> tks]
    ELSE [found |-> TRUE, tasks |-> [tks EXCEPT ![tid] = NoTask]]

(* TaskRepository.create *)
task_create(tks, tid, uid, title, priority) ==
    [tks EXCEPT ![tid] = [exists |-> TRUE, user_id |-> uid, title |-> title,
                          priority |-> priority, completed |-> FALSE]]

(* ------------------------------------------------------------------ *)
(* MCP tool path: mcp_server/server.py execute_tool -> executors.py     *)
(* ------------------------------------------------------------------ *)
ToolNames == {"add_task", "list_tasks", "complete_task", "delete_task", "update_task"}

McpOk(tks) == [success |-> TRUE, error |-> "", tasks |-> tks]
McpErr(kind, tks) == [success |-> FALSE, error |-> kind, tasks |-> tks]

(* executors.execute_complete_task / execute_delete_task / execute_update_task /
   execute_add_task / execute_list_tasks, wrapped by server.execute_tool, which
   hands the raw input to the handler and turns any exception into an error dict *)
mcp_execute_tool(tks, nxt, tool, input, uid) ==
    IF tool \notin ToolNames THEN McpErr("Tool not found", tks)
    ELSE IF tool = "add_task" THEN
        IF "title" \notin DOMAIN input THEN McpErr("ToolNotFound", tks)
        ELSE McpOk(task_create(tks, nxt + 1, uid, input.title,
                               IF "priority" \in DOMAIN input THEN input.priority ELSE "medium"))
    ELSE IF tool = "list_tasks" THEN
        IF {"status", "limit", "offset"} \subseteq DOMAIN input
        THEN McpOk(tks) ELSE McpErr("ToolNotFound", tks)
    ELSE IF "task_id" \notin DOMAIN input THEN McpErr("ToolNotFound", tks)
    ELSE IF tool = "complete_task" THEN
        LET r == task_complete(tks, input.task_id, uid)
        IN IF r.found THEN McpOk(r.tasks) ELSE McpErr("InternalError", tks)
    ELSE IF tool = "delete_task" THEN
        LET r == task_delete(tks, input.task_id, uid)
        IN IF r.found THEN McpOk(r.tasks) ELSE McpErr("InternalError", tks)
    ELSE
        LET r == task_update(tks, input.task_id, uid, input)
        IN IF r.found THEN McpOk(r.tasks) ELSE McpErr("InternalError", tks)

(* ------------------------------------------------------------------ *)
(* Chat tool path: tools/executor.py ToolExecutor                       *)
(* ------------------------------------------------------------------ *)
DESCRIPTION_MAX == 1024
LIMIT_MAX == 100
Priorities == {"low", "medium", "high"}
IsoDates == {"2026-01-01"}

(* Python values of the optional fields: a str, None, or a datetime (held by
   its ISO text) *)
Str(s) == [t |-> "str", v |-> s]
PyNone == [t |-> "None"]
Datetime(iso) == [t |-> "datetime", v |-> iso]

Get(args, k, default) == IF k \in DOMAIN args THEN args[k] ELSE default

(* a validator returns its normalized dict, or is left by an exception *)
Accepted(v) == [raised |-> FALSE, exc |-> "", value |-> v]
Rejected(e) == [raised |-> TRUE, exc |-> e, value |-> <<>>]

(* tool_input.get("description", "").strip() on a value that is not a str *)
DescriptionNotStr(x) == "description" \in DOMAIN x /\ x.description.t # "str"

(* `description or None` of the stripped description *)
NormalDescription(x) ==
    IF "description" \in DOMAIN x /\ Strip(x.description.v) # <<>>
    THEN Str(Strip(x.description.v)) ELSE PyNone

(* datetime.fromisoformat(tool_input["due_date"].replace("Z", "+00:00")) inside
   try / except (ValueError, AttributeError): a datetime has a replace()
   that takes no strings (TypeError, not caught), None has none
   (AttributeError, caught) *)
DueDateTypeError(x) == "due_date" \in DOMAIN x /\ x.due_date.t = "datetime"
DueDateInvalid(x) ==
    "due_date" \in DOMAIN x /\ (x.due_date.t = "None" \/ x.due_date.v \notin IsoDates)

(* validators.py validate_add_task_input *)
validate_add_task_input(x) ==
    IF "title" \notin DOMAIN x THEN Rejected("ValidationError")
    ELSE IF Strip(x.title) = <<>> THEN Rejected("ValidationError")
    ELSE IF Len(Strip(x.title)) > TITLE_MAX THEN Rejected("ValidationError")
    ELSE IF DescriptionNotStr(x) THEN Rejected("AttributeError")
    ELSE IF "description" \in DOMAIN x /\ Len(Strip(x.description.v)) > DESCRIPTION_MAX
    THEN Rejected("ValidationError")
    ELSE IF Get(x, "priority", "medium") \notin Priorities THEN Rejected("ValidationError")
    ELSE IF DueDateTypeError(x) THEN Rejected("TypeError")
    ELSE IF DueDateInvalid(x) THEN Rejected("ValidationError")
    ELSE Accepted([title |-> Strip(x.title),
                   description |-> NormalDescription(x),
                   priority |-> Get(x, "priority", "medium"),
                   due_date |-> IF "due_date" \in DOMAIN x THEN Datetime(x.due_date.v)
                                ELSE PyNone])

(* validators.py validate_list_tasks_input *)
validate_list_tasks_input(x) ==
    IF Get(x, "status", "all") \notin {"pending", "completed", "all"}
    THEN Rejected("ValidationError")
    ELSE IF Get(x, "limit", 50) < 1 \/ Get(x, "limit", 50) > LIMIT_MAX
    THEN Rejected("ValidationError")
    ELSE IF Get(x, "offset", 0) < 0 THEN Rejected("ValidationError")
    ELSE Accepted([status |-> Get(x, "status", "all"), limit |-> Get(x, "limit", 50),
                   offset |-> Get(x, "offset", 0)])

(* validators.py validate_complete_task_input and validate_delete_task_input;
   UUID(task_id) fails on a malformed id *)
validate_complete_task_input(x) ==
    IF "task_id" \notin DOMAIN x THEN Rejected("ValidationError")
    ELSE IF x.task_id < 0 THEN Rejected("ValidationError")
    ELSE Accepted([task_id |-> x.task_id])

(* the optional keys of update_task that the validator copies to its result *)
UpdateKeys(x) == DOMAIN x \cap {"task_id", "title", "description", "priority", "due_date"}

(* validators.py validate_update_task_input *)
validate_update_task_input(x) ==
    IF "task_id" \notin DOMAIN x THEN Rejected("ValidationError")
    ELSE IF x.task_id < 0 THEN Rejected("ValidationError")
    ELSE IF "title" \in DOMAIN x /\ Strip(x.title) = <<>> THEN Rejected("ValidationError")
    ELSE IF "title" \in DOMAIN x /\ Len(Strip(x.title)) > TITLE_MAX
    THEN Rejected("ValidationError")
    ELSE IF DescriptionNotStr(x) THEN Rejected("AttributeError")
    ELSE IF "description" \in DOMAIN x /\ Len(Strip(x.description.v)) > DESCRIPTION_MAX
    THEN Rejected("ValidationError")
    ELSE IF "priority" \in DOMAIN x /\ x.priority \notin Priorities
    THEN Rejected("ValidationError")
    ELSE IF DueDateTypeError(x) THEN Rejected("TypeError")
    ELSE IF DueDateInvalid(x) THEN Rejected("ValidationError")
    ELSE Accepted([k \in UpdateKeys(x) |->
                     CASE k = "title" -> Strip(x.title)
                       [] k = "description" -> NormalDescription(x)
                       [] k = "due_date" -> Datetime(x.due_date.v)
                       [] OTHER -> x[k]])

(* validators.py validate_tool_input *)
validate_tool_input(tool, x) ==
    CASE tool = "add_task" -> validate_add_task_input(x)
      [] tool = "list_tasks" -> validate_list_tasks_input(x)
      [] tool \in {"complete_task", "delete_task"} -> validate_complete_task_input(x)
      [] tool = "update_task" -> validate_update_task_input(x)
      [] OTHER -> Rejected("KeyError")

(* does validate_tool_input raise on this raw input of a registered tool? *)
validate_tool_input_raises(tool, input) == validate_tool_input(tool, input).raised

NoResult == [none |-> TRUE]
(* what uuid4() returns in _execute_add_task: not an id of the tasks table *)
FreshUuid == MissingTask

ExecOk(tool, res) == [success |-> TRUE, tool_name |-> tool, result |-> res, error |-> ""]
ExecErr(tool, msg) == [success |-> FALSE, tool_name |-> tool, result |-> NoResult, error |-> msg]

(* ToolExecutor._execute_add_task *)
execute_add_task(args) ==
    IF "title" \notin DOMAIN args \/ Strip(args.title) = <<>>
    THEN ExecErr("add_task", "Validation error: title is required")
    ELSE IF Len(Strip(args.title)) > TITLE_MAX
    THEN ExecErr("add_task", "Validation error: title must be max 200 characters")
    ELSE IF Len(Strip(Get(args, "description", <<>>))) > DESCRIPTION_MAX
    THEN ExecErr("add_task", "Validation error: description must be max 1024 characters")
    ELSE IF Get(args, "priority", "medium") \notin Priorities
    THEN ExecErr("add_task", "Validation error: priority must be low, medium, or high")
    ELSE IF "due_date" \in DOMAIN args /\ args.due_date \notin IsoDates
    THEN ExecErr("add_task", "Validation error: due_date must be in ISO format")
    ELSE ExecOk("add_task", [id |-> FreshUuid, title |-> Strip(args.title),
                             status |-> "pending", priority |-> Get(args, "priority", "medium")])

(* ToolExecutor._execute_list_tasks *)
execute_list_tasks(args) ==
    IF Get(args, "status", "all") \notin {"all", "pending", "completed"}
    THEN ExecErr("list_tasks", "Validation error: status must be all, pending, or completed")
    ELSE IF "priority" \in DOMAIN args /\ args.priority \notin Priorities
    THEN ExecErr("list_tasks", "Validation error: priority must be low, medium, or high")
    ELSE IF Get(args, "limit", 20) < 1 \/ Get(args, "limit", 20) > LIMIT_MAX
    THEN ExecErr("list_tasks", "Validation error: limit must be between 1 and 100")
    ELSE ExecOk("list_tasks", [count |-> 0, tasks |-> <<>>,
                               status_filter |-> Get(args, "status", "all")])

(* the task_id checks shared by _execute_complete_task, _execute_delete_task
   and _execute_update_task *)
TaskIdError(args) ==
    IF "task_id" \notin DOMAIN args THEN "Validation error: task_id is required"
    ELSE IF ~IsUuid(args.task_id) THEN "Validation error: task_id must be a valid UUID"
    ELSE ""

(* ToolExecutor._execute_complete_task *)
execute_complete_task(args) ==
    IF TaskIdError(args) # "" THEN ExecErr("complete_task", TaskIdError(args))
    ELSE ExecOk("complete_task", [id |-> args.task_id, status |-> "completed"])

(* ToolExecutor._execute_delete_task *)
execute_delete_task(args) ==
    IF TaskIdError(args) # "" THEN ExecErr("delete_task", TaskIdError(args))
    ELSE ExecOk("delete_task", [id |-> args.task_id, deleted |-> TRUE])

(* ToolExecutor._execute_update_task *)
execute_update_task(args) ==
    IF TaskIdError(args) # "" THEN ExecErr("update_task", TaskIdError(args))
    ELSE IF "title" \in DOMAIN args /\ Strip(args.title) = <<>>
    THEN ExecErr("update_task", "Validation error: title must be a non-empty string")
    ELSE IF "title" \in DOMAIN args /\ Len(args.title) > TITLE_MAX
    THEN ExecErr("update_task", "Validation error: title must be max 200 characters")
    ELSE IF "priority" \in DOMAIN args /\ args.priority \notin Priorities
    THEN ExecErr("update_task", "Validation error: priority must be low, medium, or high")
    ELSE IF "due_date" \in DOMAIN args /\ args.due_date \notin IsoDates
    THEN ExecErr("update_task", "Validation error: due_date must be in ISO format")
    ELSE ExecOk("update_task", [id |-> args.task_id,
                                title |-> Get(args, "title", <<"T", "a", "s", "k">>),
                                priority |-> Get(args, "priority", "medium")])

(* ToolExecutor.execute *)
executor_execute(tool, args) ==
    CASE tool = "add_task" -> execute_add_task(args)
      [] tool = "list_tasks" -> execute_list_tasks(args)
      [] tool = "complete_task" -> execute_complete_task(args)
      [] tool = "delete_task" -> execute_delete_task(args)
      [] tool = "update_task" -> execute_update_task(args)
      [] OTHER -> ExecErr(tool, "Unknown tool")

(* ------------------------------------------------------------------ *)
(* Direct tool calls                                                    *)
(* ------------------------------------------------------------------ *)
(* an id of TaskIds not handed out yet, or deleted, is a well-formed id of no task *)
TaskArgIds == TaskIds \cup {MalformedId}

ToolInputs(tool) ==
    CASE tool = "add_task" -> {[title |-> BuyMilk], [title |-> BuyMilk, priority |-> "urgent"],
                               <<>>}
      [] tool \notin ToolNames -> {<<>>}
      [] tool = "list_tasks" -> {<<>>, [status |-> "all", limit |-> 20, offset |-> 0]}
      [] tool = "update_task" -> {[task_id |-> t, title |-> Milk, priority |-> "high"] :
                                    t \in TaskArgIds}
      [] OTHER -> {[task_id |-> t] : t \in TaskArgIds} \cup {<<>>}

(* mcp_server/server.py execute_tool *)
McpExecuteTool(u, tool, input) ==
    /\ tool = "add_task" => next_task < MaxTasks
    /\ LET r == mcp_execute_tool(tasks, next_task, tool, input, u)
       IN /\ tasks' = r.tasks
          /\ next_task' = IF tool = "add_task" /\ r.success THEN next_task + 1 ELSE next_task
          /\ last_op' = [op |-> "mcp_execute_tool", user_id |-> u, tool |-> tool,
                         input |-> input, success |-> r.success, raised |-> FALSE,
                         error |-> r.error]
    /\ UNCHANGED <<storeVars, turnVars>>

(* TaskRepository.complete / update / delete called directly *)
TaskRepositoryCall(u, tool, input) ==
    /\ tool \in {"complete_task", "delete_task", "update_task"}
    /\ "task_id" \in DOMAIN input /\ IsUuid(input.task_id)
    /\ LET r == CASE tool = "complete_task" -> task_complete(tasks, input.task_id, u)
                   [] tool = "delete_task" -> task_delete(tasks, input.task_id, u)
                   [] OTHER -> task_update(tasks, input.task_id, u, input)
       IN /\ tasks' = r.tasks
          /\ last_op' = [op |-> "task_repository", user_id |-> u, tool |-> tool,
                         input |-> input, success |-> r.found, raised |-> FALSE,
                         error |-> ""]
    /\ UNCHANGED <<next_task, storeVars, turnVars>>

(* ToolExecutor(session).execute called directly *)
ToolExecutorExecute(u, tool, input) ==
    /\ LET r == executor_execute(tool, input)
       IN last_op' = [op |-> "executor_execute", user_id |-> u, tool |-> tool,
                      input |-> input, success |-> r.success, raised |-> FALSE,
                      error |-> r.error]
    /\ UNCHANGED <<storeVars, taskVars, turnVars>>

(* a dict with the one key k, and the ways a raw input may or may not carry it *)
Field(k, v) == [n \in {k} |-> v]
OptField(k, vals) == {<<>>} \cup {Field(k, v) : v \in vals}

PaddedMilk == <<" ">> \o Milk \o <<" ">>

(* raw inputs handed to the validators: JSON objects of the caller *)
ValidatorInputs(tool) ==
    CASE tool = "add_task" ->
            {t @@ d @@ p @@ dd :
                t \in OptField("title", {BuyMilk, PaddedMilk, <<" ">>}),
                d \in OptField("description", {Str(<<>>), Str(<<" ", "d">>), PyNone}),
                p \in OptField("priority", {"high", "urgent"}),
                dd \in OptField("due_date", {Str("2026-01-01"), Str("tomorrow")})}
      [] tool = "update_task" ->
            {Field("task_id", i) @@ t @@ d @@ p @@ dd :
                i \in TaskArgIds,
                t \in OptField("title", {PaddedMilk}),
                d \in OptField("description", {Str(<<>>), Str(<<" ", "d">>)}),
                p \in OptField("priority", {"high"}),
                dd \in OptField("due_date", {Str("2026-01-01")})}
      [] tool = "list_tasks" ->
            {<<>>, [status |-> "pending", limit |-> 20, offset |-> 0], [limit |-> 0],
             [status |-> "done"]}
      [] OTHER -> {[task_id |-> t] : t \in TaskArgIds} \cup {<<>>}

(* validators.validate_tool_input called on a raw input *)
ValidateToolInput(tool, x) ==
    /\ LET r == validate_tool_input(tool, x)
       IN last_op' = [op |-> "validate_tool_input", tool |-> tool, input |-> x,
                      again |-> FALSE, raised |-> r.raised, exc |-> r.exc, value |-> r.value]
    /\ UNCHANGED <<storeVars, taskVars, turnVars>>

(* validators.validate_tool_input called on the dict the call before returned *)
ValidateAgain ==
    /\ last_op.op = "validate_tool_input"
    /\ ~last_op.again
    /\ ~last_op.raised
    /\ LET r == validate_tool_input(last_op.tool, last_op.value)
       IN last_op' = [op |-> "validate_tool_input", tool |-> last_op.tool,
                      input |-> last_op.value, again |-> TRUE, raised |-> r.raised,
                      exc |-> r.exc, value |-> r.value]
    /\ UNCHANGED <<storeVars, taskVars, turnVars>>

(* ------------------------------------------------------------------ *)
(* Completion service: the responses a round can receive                *)
(* ------------------------------------------------------------------ *)
ToolCall(id, name, args) == [id |-> id, name |-> name, arguments |-> args, json_ok |-> TRUE]

Plain(text) == [kind |-> "ok", content |-> text, tool_calls |-> <<>>]
WithTools(text, tcs) == [kind |-> "ok", content |-> text, tool_calls |-> tcs]
Failure(kind) == [kind |-> kind, content |-> "", tool_calls |-> <<>>]

RespAddTask == WithTools("", <<ToolCall(1, "add_task", [title |-> BuyMilk])>>)
(* more requests than the per-round cap: an unregistered tool, a task the
   caller does not have, arguments that are not JSON, a title over the limit,
   and list_tasks from there on *)
RespOverCap ==
    WithTools("On it.",
        <<ToolCall(1, "frobnicate", <<>>),
          ToolCall(2, "complete_task", [task_id |-> 1]),
          [id |-> 3, name |-> "add_task", arguments |-> <<>>, json_ok |-> FALSE],
          ToolCall(4, "add_task", [title |-> LongTitle])>>
        \o [k \in 1..(MAX_TOOL_CALLS_PER_TURN + MaxOverCap - 4) |->
               ToolCall(k + 4, "list_tasks", <<>>)])

ToolResponses == {RespAddTask, RespOverCap}
PlainResponses == {Plain("You have none yet."), Plain("Added!")}
FailureKinds == {"timeout", "rate_limit", "api_error", "unknown"}
Responses == ToolResponses \cup PlainResponses \cup {Failure(k) : k \in FailureKinds}

NoResponse == Failure("none")

(* tools/registry.py validate_tool_name *)
validate_tool_name(name) == name \in ToolNames

(* ------------------------------------------------------------------ *)
(* Chat endpoint and ChatService.process_chat_message                   *)
(* ------------------------------------------------------------------ *)
RawMessages == {"What are my tasks?", " Test  message ", ""}
CleanMessages == {"What are my tasks?", "Test message"}
BadConvId == -1

(* utils/sanitization.py sanitize_message on the inputs above *)
SanitizeFails(m) == m = ""
sanitize_message(m) == IF m = " Test  message " THEN "Test message" ELSE m

NoReturn == [resp |-> [success |-> FALSE, error |-> "none", response |-> ""],
             none |-> TRUE, tool_calls |-> <<>>]
NoResultYet == [pending |-> TRUE]

(* the (response_dict, tool_calls_made) pair of _invoke_agent_with_tools *)
ReturnOk(text, none, tcs) ==
    [resp |-> [success |-> TRUE, response |-> text], none |-> none, tool_calls |-> tcs]
ReturnFail(kind) ==
    [resp |-> [success |-> FALSE, error |-> kind, response |-> "Please try again."],
     none |-> TRUE, tool_calls |-> <<>>]

(* `tool_calls_made if tool_calls_made else ...` *)
Truthy(ret) == ~ret.none /\ ret.tool_calls # <<>>

(* the except clauses of _invoke_agent_with_tools on a failure `kind` of the
   completion call, tried in order: Timeout, RateLimitError, APIError,
   Exception. `Timeout` is what `from openai import Timeout` binds. The code
   takes it for the exception a timed-out call raises (timeout_catchable); the
   name the 1.x client exports is httpx's timeout configuration class, and
   matching a raised exception against a class that is not an exception
   raises TypeError out of the function, whichever exception was raised. *)
invoke_except(kind, timeout_catchable) ==
    IF timeout_catchable
    THEN [propagates |-> FALSE, exc |-> "", ret |-> ReturnFail(kind)]
    ELSE [propagates |-> TRUE, exc |-> "TypeError", ret |-> NoReturn]

(* a classifier that re-raises what it cannot classify *)
handle_agent_error_Rethrows(exc) ==
    CASE exc = "Timeout" -> [raised |-> FALSE, error_type |-> "timeout"]
      [] exc = "RateLimitError" -> [raised |-> FALSE, error_type |-> "rate_limit"]
      [] exc = "ValueError" -> [raised |-> FALSE, error_type |-> "parsing_error"]
      [] exc = "KeyError" -> [raised |-> FALSE, error_type |-> "tool_not_found"]
      [] OTHER -> [raised |-> TRUE, error_type |-> "unknown"]

(* agent/error_handler.py handle_agent_error: isinstance tests in order, the
   last branch takes everything else *)
handle_agent_error(exc) ==
    CASE exc = "Timeout" -> [raised |-> FALSE, error_type |-> "timeout"]
      [] exc = "RateLimitError" -> [raised |-> FALSE, error_type |-> "rate_limit"]
      [] exc = "ValueError" -> [raised |-> FALSE, error_type |-> "parsing_error"]
      [] exc = "KeyError" -> [raised |-> FALSE, error_type |-> "tool_not_found"]
      [] OTHER -> [raised |-> FALSE, error_type |-> "unknown"]

(* process_chat_message left by an exception instead of a return *)
Raised == [raised |-> TRUE]

(* the except branch of process_chat_message on exception `exc` *)
FallbackResult(cid, exc) ==
    IF handle_agent_error(exc).raised THEN Raised
    ELSE [success |-> FALSE, error |-> handle_agent_error(exc).error_type,
          response |-> "fallback", conversation_id |-> cid, tool_calls_executed |-> <<>>]

(* routers/chat.py: error type -> HTTP status; an exception out of the
   service is the endpoint's own except branch *)
StatusFor(res) ==
    IF "success" \notin DOMAIN res THEN 500
    ELSE IF res.success THEN 200
    ELSE IF res.error = "conversation_not_found" THEN 404
    ELSE IF res.error \in {"timeout", "rate_limit", "api_error"} THEN 503
    ELSE 500

(* ChatService._format_messages_for_agent *)
format_messages_for_agent(msgs) ==
    [k \in 1..Len(msgs) |-> [role |-> msgs[k].role, content |-> msgs[k].content]]

IdleTurn ==
    /\ pc = "idle" /\ entry = "none" /\ user_id = NoUser /\ conversation_id = MissingConv
    /\ user_message = "" /\ recent_messages = <<>> /\ agent_messages = <<>>
    /\ retry_count = 0 /\ completion_calls = 0 /\ response = NoResponse /\ idx = 0
    /\ tool_calls_made = <<>> /\ returned = NoReturn /\ result = NoResultYet
    /\ http_status = 0

Init ==
    /\ conversations = [c \in ConvIds |-> NoConversation]
    /\ messages = <<>>
    /\ next_conv = 0
    /\ tasks = [t \in TaskIds |-> NoTask]
    /\ next_task = 0
    /\ last_op = [op |-> "none"]
    /\ IdleTurn

(* what n / 2 earlier turns of u1 left in conversation 1 *)
Earlier(n) ==
    [k \in 1..n |-> NewMessage(1, "u1", IF k % 2 = 1 THEN "user" ELSE "assistant",
                               "earlier", <<>>, k)]

HistoryLens == {MAX_CONVERSATION_HISTORY - 2, MAX_CONVERSATION_HISTORY}

(* the store after those turns: a conversation just below, or at, the
   history limit *)
InitHistory ==
    /\ \E n \in HistoryLens :
          /\ conversations = [c \in ConvIds |->
                                IF c = 1 THEN [exists |-> TRUE, user_id |-> "u1", updated_at |-> n]
                                ELSE NoConversation]
          /\ messages = Earlier(n)
    /\ next_conv = 1
    /\ tasks = [t \in TaskIds |-> NoTask]
    /\ next_task = 0
    /\ last_op = [op |-> "none"]
    /\ IdleTurn

(* the turn ends: the endpoint maps the service result to a status code *)
Finish(res) ==
    /\ result' = res
    /\ http_status' = IF entry = "router" THEN StatusFor(res) ELSE 0
    /\ pc' = "done"

(* a chat request arrives, at the endpoint or directly at the service *)
StartTurn(u, c, m, e) ==
    /\ pc = "idle"
    /\ Len(SelectSeq(messages, LAMBDA x : x.content # "earlier")) + 2 <= MaxMsgs
    /\ e = "router" => m \in RawMessages
    /\ e = "service" => (m \in CleanMessages /\ c # BadConvId)
    /\ pc' = e
    /\ entry' = e
    /\ user_id' = u
    /\ conversation_id' = c
    /\ user_message' = m
    /\ UNCHANGED <<storeVars, taskVars, last_op, recent_messages, agent_messages,
                   retry_count, completion_calls, response, idx, tool_calls_made,
                   returned, result, http_status>>

(* routers/chat.py chat(): steps 2-5 of the endpoint *)
RouterChat(authenticated) ==
    /\ pc = "router"
    /\ IF user_id # authenticated
       THEN http_status' = 403 /\ pc' = "done" /\ UNCHANGED user_message
       ELSE IF SanitizeFails(user_message) \/ conversation_id = BadConvId
       THEN http_status' = 400 /\ pc' = "done" /\ UNCHANGED user_message
       ELSE IF ~get_conversation(conversations, conversation_id, user_id).found
       THEN http_status' = 403 /\ pc' = "done" /\ UNCHANGED user_message
       ELSE /\ user_message' = sanitize_message(user_message)
            /\ pc' = "service"
            /\ UNCHANGED http_status
    /\ UNCHANGED <<storeVars, taskVars, last_op, entry, user_id, conversation_id,
                   recent_messages, agent_messages, retry_count, completion_calls,
                   response, idx, tool_calls_made, returned, result>>

(* process_chat_message step 1: ownership check *)
ValidateOwnership ==
    /\ pc = "service"
    /\ IF ~get_conversation(conversations, conversation_id, user_id).found
       THEN Finish([success |-> FALSE, error |-> "conversation_not_found",
                    response |-> "I couldn't find that conversation.",
                    conversation_id |-> conversation_id])
       ELSE pc' = "append_user" /\ UNCHANGED <<result, http_status>>
    /\ UNCHANGED <<storeVars, taskVars, last_op, entry, user_id, conversation_id,
                   user_message, recent_messages, agent_messages, retry_count,
                   completion_calls, response, idx, tool_calls_made, returned>>

(* process_chat_message step 2: append the user message *)
AppendUserMessage ==
    /\ pc = "append_user"
    /\ LET r == append_message(conversations, messages, conversation_id, user_id,
                               "user", user_message, <<>>, Tick(messages))
       IN /\ conversations' = r.conversations
          /\ messages' = r.messages
          /\ IF r.ok THEN pc' = "load" /\ UNCHANGED <<result, http_status>>
             ELSE Finish(FallbackResult(conversation_id, r.error))
    /\ UNCHANGED <<next_conv, taskVars, last_op, entry, user_id, conversation_id,
                   user_message, recent_messages, agent_messages, retry_count,
                   completion_calls, response, idx, tool_calls_made, returned>>

(* process_chat_message steps 3-4: load the history and format it *)
LoadHistory ==
    /\ pc = "load"
    /\ recent_messages' \in get_recent_messages(conversations, messages, conversation_id,
                                                 user_id, MAX_CONVERSATION_HISTORY)
    /\ agent_messages' = format_messages_for_agent(recent_messages')
    /\ retry_count' = 0
    /\ pc' = "call"
    /\ UNCHANGED <<storeVars, taskVars, last_op, entry, user_id, conversation_id,
                   user_message, completion_calls, response, idx, tool_calls_made,
                   returned, result, http_status>>

(* _invoke_agent_with_tools: one completions.create call and what follows it
   up to the next await *)
CallCompletion(r, timeout_catchable) ==
    /\ pc = "call"
    /\ r.kind = "ok" => timeout_catchable
    /\ completion_calls' = completion_calls + 1
    /\ response' = r
    /\ idx' = 0
    /\ tool_calls_made' = <<>>
    /\ IF r.kind # "ok"
       THEN LET h == invoke_except(r.kind, timeout_catchable)
            IN /\ returned' = h.ret
               /\ IF h.propagates
                  THEN Finish(FallbackResult(conversation_id, h.exc))
                  ELSE Finish([success |-> FALSE, error |-> h.ret.resp.error,
                               response |-> h.ret.resp.response,
                               conversation_id |-> conversation_id,
                               tool_calls_executed |-> <<>>])
       ELSE IF r.tool_calls = <<>>
       THEN /\ returned' = ReturnOk(r.content, TRUE, <<>>)
            /\ pc' = "persist"
            /\ UNCHANGED <<result, http_status>>
       ELSE /\ pc' = "tools"
            /\ UNCHANGED <<returned, result, http_status>>
    /\ UNCHANGED <<storeVars, taskVars, last_op, entry, user_id, conversation_id,
                   user_message, recent_messages, agent_messages, retry_count>>

(* entries of tool_calls_made *)
MadeOk(tc, res) == [id |-> tc.id, name |-> tc.name, arguments |-> tc.arguments, result |-> res]
MadeError(tc, msg) == [id |-> tc.id, name |-> tc.name, error |-> msg]

(* the cap compared with > instead of >= *)
LoopContinues_OffByOne(tcs, i) == i < Len(tcs) /\ i <= MAX_TOOL_CALLS_PER_TURN

(* does the loop body run for index i (0-based)? *)
LoopContinues(tcs, i) == i < Len(tcs) /\ i < MAX_TOOL_CALLS_PER_TURN

(* one iteration of `for i, tool_call in enumerate(tool_calls)` *)
ExecuteToolCall ==
    /\ pc = "tools"
    /\ LoopContinues(response.tool_calls, idx)
    /\ LET tc == response.tool_calls[idx + 1]
       IN IF ~validate_tool_name(tc.name)
          THEN UNCHANGED <<conversations, messages, tool_calls_made>>
          ELSE IF ~tc.json_ok
          THEN /\ tool_calls_made' = Append(tool_calls_made, MadeError(tc, "JSONDecodeError"))
               /\ UNCHANGED <<conversations, messages>>
          ELSE LET res == executor_execute(tc.name, tc.arguments)
                   made == Append(tool_calls_made, MadeOk(tc, res))
                   r == append_message(conversations, messages, conversation_id, user_id,
                                       "tool", "Tool result", <<[tool_name |-> tc.name]>>,
                                       Tick(messages))
               IN /\ conversations' = r.conversations
                  /\ messages' = r.messages
                  /\ tool_calls_made' = IF r.ok THEN made
                                        ELSE Append(made, MadeError(tc, r.error))
    /\ idx' = idx + 1
    /\ UNCHANGED <<next_conv, taskVars, last_op, pc, entry, user_id, conversation_id,
                   user_message, recent_messages, agent_messages, retry_count,
                   completion_calls, response, returned, result, http_status>>

(* the messages list handed to the next round *)
updated_messages(msgs, resp, made) ==
    msgs \o <<[role |-> "assistant", content |-> resp.content,
               tool_calls |-> [k \in 1..Len(resp.tool_calls) |-> resp.tool_calls[k].id]]>>
         \o [k \in 1..Len(made) |->
                [role |-> "tool", tool_call_id |-> made[k].id,
                 content |-> IF "error" \in DOMAIN made[k] THEN "Error" ELSE "result"]]

(* the retry bound compared with > instead of >= *)
RetryBoundHit_OffByOne(rc) == rc > MAX_RETRIES_ON_INVALID_TOOL_CALL

(* `if retry_count >= MAX_RETRIES_ON_INVALID_TOOL_CALL` *)
RetryBoundHit(rc) == rc >= MAX_RETRIES_ON_INVALID_TOOL_CALL

(* after the loop: stop at the retry bound or re-invoke the agent *)
EndRound ==
    /\ pc = "tools"
    /\ ~LoopContinues(response.tool_calls, idx)
    /\ IF RetryBoundHit(retry_count)
       THEN /\ returned' = ReturnOk(response.content, FALSE, tool_calls_made)
            /\ pc' = "persist"
            /\ UNCHANGED <<retry_count, agent_messages>>
       ELSE /\ retry_count' = retry_count + 1
            /\ agent_messages' = updated_messages(agent_messages, response, tool_calls_made)
            /\ pc' = "call"
            /\ UNCHANGED returned
    /\ UNCHANGED <<storeVars, taskVars, last_op, entry, user_id, conversation_id,
                   user_message, recent_messages, completion_calls, response, idx,
                   tool_calls_made, result, http_status>>

(* process_chat_message steps 6-7: persist the reply and return *)
PersistReply ==
    /\ pc = "persist"
    /\ LET tcs == IF Truthy(returned) THEN returned.tool_calls ELSE <<>>
           r == append_message(conversations, messages, conversation_id, user_id,
                               "assistant", returned.resp.response, tcs, Tick(messages))
       IN /\ conversations' = r.conversations
          /\ messages' = r.messages
          /\ IF r.ok
             THEN Finish([success |-> TRUE, conversation_id |-> conversation_id,
                          response |-> returned.resp.response,
                          tool_calls_executed |-> tcs,
                          message_count |-> Len(recent_messages) + 2])
             ELSE Finish(FallbackResult(conversation_id, r.error))
    /\ UNCHANGED <<next_conv, taskVars, last_op, entry, user_id, conversation_id,
                   user_message, recent_messages, agent_messages, retry_count,
                   completion_calls, response, idx, tool_calls_made, returned>>

(* a worker whose round records sit in a module-level list that outlives the
   request *)
FinishTurn_KeepsRecords ==
    /\ pc = "done"
    /\ pc' = "idle" /\ entry' = "none" /\ user_id' = NoUser /\ conversation_id' = MissingConv
    /\ user_message' = "" /\ recent_messages' = <<>> /\ agent_messages' = <<>>
    /\ retry_count' = 0 /\ completion_calls' = 0 /\ response' = NoResponse /\ idx' = 0
    /\ returned' = NoReturn /\ result' = NoResultYet
    /\ http_status' = 0
    /\ UNCHANGED <<storeVars, taskVars, last_op, tool_calls_made>>

(* the request is answered: the locals of chat() and process_chat_message go
   with their frames, and the worker serves the next request *)
FinishTurn ==
    /\ pc = "done"
    /\ pc' = "idle" /\ entry' = "none" /\ user_id' = NoUser /\ conversation_id' = MissingConv
    /\ user_message' = "" /\ recent_messages' = <<>> /\ agent_messages' = <<>>
    /\ retry_count' = 0 /\ completion_calls' = 0 /\ response' = NoResponse /\ idx' = 0
    /\ tool_calls_made' = <<>> /\ returned' = NoReturn /\ result' = NoResultYet
    /\ http_status' = 0
    /\ UNCHANGED <<storeVars, taskVars, last_op>>

(* ------------------------------------------------------------------ *)
(* Specifications                                                       *)
(* ------------------------------------------------------------------ *)
TurnStep ==
    \/ \E u \in Users, c \in ConvIds \cup {BadConvId}, m \in RawMessages \cup CleanMessages,
          e \in {"router", "service"} : StartTurn(u, c, m, e)
    \/ \E a \in Users : RouterChat(a)
    \/ ValidateOwnership
    \/ AppendUserMessage
    \/ LoadHistory
    \/ \E r \in Responses, timeout_catchable \in BOOLEAN : CallCompletion(r, timeout_catchable)
    \/ ExecuteToolCall
    \/ EndRound
    \/ PersistReply
    \/ FinishTurn

(* an id of ConvIds not handed out yet, or deleted, is an id that is not found *)
StoreStep ==
    \/ \E u \in Users : CreateConversation(u)
    \/ \E u \in Users, c \in ConvIds : GetConversation(c, u)
    \/ \E u \in Users, c \in ConvIds, n \in Limits : GetRecentMessages(c, u, n)
    \/ \E u \in Users, c \in ConvIds, role \in StoreRoles :
          \E now \in Stamps(messages) : AppendMessage(c, u, role, now)
    \/ \E u \in Users, c \in ConvIds : DeleteConversation(c, u)

TaskStep ==
    \/ \E u \in Users, tool \in ToolNames \cup {"frobnicate"} :
          \E input \in ToolInputs(tool) : McpExecuteTool(u, tool, input)
    \/ \E u \in Users, tool \in ToolNames \cup {"frobnicate"} :
          \E input \in ToolInputs(tool) : ToolExecutorExecute(u, tool, input)
    \/ \E u \in Users, tool \in ToolNames :
          \E input \in ToolInputs(tool) : TaskRepositoryCall(u, tool, input)

(* chat turns interleaved with other requests that write the conversation store *)
Next ==
    \/ TurnStep
    \/ \E u \in Users : pc = "idle" /\ CreateConversation(u)
    \/ \E u \in Users, c \in ConvIds : DeleteConversation(c, u)

Spec == Init /\ [][Next]_vars

(* one request at a time: a chat turn runs to its end undisturbed *)
NextTurn ==
    \/ TurnStep
    \/ \E u \in Users : pc = "idle" /\ CreateConversation(u)

SpecTurn == Init /\ [][NextTurn]_vars

(* the steps of a request being served; the event loop runs the coroutine on
   and the completion call returns or fails within AGENT_TIMEOUT_SECONDS *)
ServeStep ==
    \/ \E a \in Users : RouterChat(a)
    \/ ValidateOwnership
    \/ AppendUserMessage
    \/ LoadHistory
    \/ \E r \in Responses, timeout_catchable \in BOOLEAN : CallCompletion(r, timeout_catchable)
    \/ ExecuteToolCall
    \/ EndRound
    \/ PersistReply

SpecLive == Init /\ [][NextTurn]_vars /\ WF_vars(ServeStep)

(* ConversationService.append_message called by another request while the
   turn at hand is between two of its awaits *)
ConcurrentAppend(c, u, role) ==
    /\ Len(messages) < MaxMsgs
    /\ LET r == append_message(conversations, messages, c, u, role, "x", <<>>, Tick(messages))
       IN /\ r.ok
          /\ conversations' = r.conversations
          /\ messages' = r.messages
    /\ UNCHANGED <<next_conv, taskVars, turnVars, last_op>>

(* chat turns interleaved with the appends, creations and deletions of other
   requests, by any user *)
NextRace ==
    \/ \E u \in Users, c \in ConvIds : StartTurn(u, c, "What are my tasks?", "service")
    \/ ValidateOwnership
    \/ AppendUserMessage
    \/ LoadHistory
    \/ \E r \in {RespAddTask, Plain("Added!")} : CallCompletion(r, TRUE)
    \/ ExecuteToolCall
    \/ EndRound
    \/ PersistReply
    \/ FinishTurn
    \/ \E u \in Users : pc = "idle" /\ CreateConversation(u)
    \/ \E u \in Users, c \in ConvIds : DeleteConversation(c, u)
    \/ \E u \in Users, c \in ConvIds, role \in {"user", "assistant"} :
          ConcurrentAppend(c, u, role)

SpecRace == Init /\ [][NextRace]_vars

(* turns on a conversation that already holds a long history *)
SpecHistory == InitHistory /\ [][TurnStep]_vars

(* direct calls of the conversation store *)
SpecStore == Init /\ [][StoreStep]_vars

(* direct calls of the two tool paths over the task table *)
SpecTasks == Init /\ [][TaskStep]_vars

ValidateStep ==
    \/ \E tool \in ToolNames : \E x \in ValidatorInputs(tool) : ValidateToolInput(tool, x)
    \/ ValidateAgain

(* the validators applied to raw inputs and to their own results *)
SpecValidate == Init /\ [][ValidateStep]_vars

(* ------------------------------------------------------------------ *)
(* Properties                                                           *)
(* ------------------------------------------------------------------ *)
Foreign(cid, uid) == Row(conversations, cid).exists /\ Row(conversations, cid).user_id # uid

(* entries of tool_calls_made that record a call handed to the executor *)
Executed(made) == {k \in 1..Len(made) : "result" \in DOMAIN made[k]}

(* C1: whatever the completion service answers, in particular when every
   response requests tools, a turn makes at most MAX_RETRIES + 1 = 3
   completion calls and is never about to make a fourth. *)
C1_BoundedCompletionCalls ==
    /\ completion_calls <= MAX_RETRIES_ON_INVALID_TOOL_CALL + 1
    /\ pc = "call" => completion_calls <= MAX_RETRIES_ON_INVALID_TOOL_CALL

C1_Witness ==
    /\ pc = "done"
    /\ completion_calls = MAX_RETRIES_ON_INVALID_TOOL_CALL + 1
    /\ response \in ToolResponses
    /\ result.success

(* C2: in a round only the first MAX_TOOL_CALLS_PER_TURN = 5 requests are
   handled: at most 5 calls reach the executor and no request after the
   fifth leaves a trace in the round's records (request ids are positions). *)
C2_AtMostFivePerRound ==
    /\ idx <= MAX_TOOL_CALLS_PER_TURN
    /\ Cardinality(Executed(tool_calls_made)) <= MAX_TOOL_CALLS_PER_TURN
    /\ \A k \in 1..Len(tool_calls_made) : tool_calls_made[k].id <= MAX_TOOL_CALLS_PER_TURN

C2_Witness ==
    /\ pc = "persist"
    /\ Len(response.tool_calls) > MAX_TOOL_CALLS_PER_TURN
    /\ idx = MAX_TOOL_CALLS_PER_TURN
    /\ Executed(tool_calls_made) # {}

(* the turn at hand ran scenario B: empty conversation, first response one
   add_task request, second response the plain text "Added!" *)
ScenarioB ==
    /\ pc = "done"
    /\ Len(recent_messages) = 1
    /\ completion_calls = 2
    /\ Len(agent_messages) >= 2
    /\ agent_messages[2] = [role |-> "assistant", content |-> RespAddTask.content,
                            tool_calls |-> <<1>>]
    /\ response = Plain("Added!")

(* C3: after scenario B the conversation holds exactly four messages:
   user, assistant (with the tool calls), tool, assistant. *)
C3_ScenarioB_FourMessages ==
    ScenarioB =>
        LET stored == ConvMessages(messages, conversation_id)
        IN /\ Roles(stored) = <<"user", "assistant", "tool", "assistant">>
           /\ stored[2].tool_calls # <<>>

(* the turn at hand ran scenario A: empty conversation, the question, one
   plain response *)
ScenarioA ==
    /\ pc = "done"
    /\ Len(recent_messages) = 1
    /\ user_message = "What are my tasks?"
    /\ completion_calls = 1
    /\ response = Plain("You have none yet.")

(* C4: after scenario A the turn result is success with the response text
   and no tool calls, and the conversation holds the user message followed
   by the assistant message. *)
C4_ScenarioA ==
    ScenarioA =>
        /\ result.success
        /\ result.response = "You have none yet."
        /\ result.tool_calls_executed = <<>>
        /\ LET stored == ConvMessages(messages, conversation_id)
           IN /\ Len(stored) = 2
              /\ stored[1] = NewMessage(conversation_id, user_id, "user",
                                        "What are my tasks?", <<>>, stored[1].created_at)
              /\ stored[2] = NewMessage(conversation_id, user_id, "assistant",
                                        "You have none yet.", <<>>, stored[2].created_at)

C4_Witness == ScenarioA /\ result.success /\ Len(messages) = 2

(* C5: a lookup of an existing conversation by a user who does not own it
   returns NotFound, the same value a lookup of a missing id returns. *)
C5_NonOwnerLookupIsNotFound ==
    (last_op.op = "get_conversation" /\ Foreign(last_op.id, last_op.user_id)) =>
        /\ last_op.result = NotFound
        /\ last_op.result = get_conversation(conversations, MissingConv, last_op.user_id)

C5_Witness ==
    /\ last_op.op = "get_conversation"
    /\ Foreign(last_op.id, last_op.user_id)
    /\ ~last_op.result.found

(* C6: recent messages of a conversation asked for by a user who does not
   own it are the empty sequence, not an error, whatever the conversation holds. *)
C6_NonOwnerRecentMessagesEmpty ==
    (last_op.op = "get_recent_messages" /\ Foreign(last_op.id, last_op.user_id)) =>
        last_op.result = <<>> /\ ~last_op.raised

C6_Witness ==
    /\ last_op.op = "get_recent_messages"
    /\ Foreign(last_op.id, last_op.user_id)
    /\ ConvMessages(messages, last_op.id) # <<>>
    /\ last_op.result = <<>>

(* C7: a chat request with a valid message that names a conversation owned
   by somebody else ends at its next step: the endpoint answers 403 (404 from
   the service's own check), the service result is not a success, and the
   step writes no message and touches no conversation. *)
C7_ForeignPostRefused ==
    [][(/\ pc \in {"router", "service"}
        /\ Foreign(conversation_id, user_id)
        /\ ~SanitizeFails(user_message)
        /\ pc' # pc)
       => (/\ pc' = "done"
           /\ messages' = messages
           /\ conversations' = conversations
           /\ entry = "router" => http_status' \in {403, 404}
           /\ IF pc = "service" THEN ~result'.success ELSE result' = NoResultYet)]_vars

C7_Witness ==
    /\ pc = "done"
    /\ Foreign(conversation_id, user_id)
    /\ ~SanitizeFails(user_message)
    /\ http_status = 403
    /\ result = NoResultYet

(* a repository-backed complete, update or delete of task t by someone else *)
CrossUserMutation(op, t) ==
    /\ op.op \in {"task_repository", "mcp_execute_tool"}
    /\ op.tool \in {"complete_task", "delete_task", "update_task"}
    /\ "task_id" \in DOMAIN op.input
    /\ op.input.task_id = t
    /\ tasks[t].exists
    /\ tasks[t].user_id # op.user_id

(* C8: a complete, update or delete of a task issued by a user who does not
   own it reports failure and leaves the task as it was. *)
C8_CrossUserMutationRefused ==
    [][\A t \in TaskIds :
          (last_op' # last_op /\ CrossUserMutation(last_op', t))
          => (tasks'[t] = tasks[t] /\ ~last_op'.success)]_vars

C8_Witness ==
    \E t \in TaskIds :
        /\ CrossUserMutation(last_op, t)
        /\ last_op.tool = "complete_task"
        /\ ~last_op.success
        /\ ~tasks[t].completed

(* C9: a complete_task, delete_task or update_task call with a well-formed
   id of a task that does not exist, or is not the caller's, comes back as a
   failure result: not as a success and not as an exception. *)
C9_MissingTaskIsFailure ==
    (/\ last_op.op \in {"executor_execute", "mcp_execute_tool"}
     /\ last_op.tool \in {"complete_task", "delete_task", "update_task"}
     /\ "task_id" \in DOMAIN last_op.input
     /\ IsUuid(last_op.input.task_id)
     /\ ~task_get_by_id(tasks, last_op.input.task_id, last_op.user_id))
    => (~last_op.success /\ ~last_op.raised)

(* C10: an append by the owner with role tool is accepted and persisted, and
   an append with a role outside {user, assistant, tool} is rejected with
   nothing persisted. *)
C10_AppendAcceptsUserAssistantTool ==
    [][(last_op' # last_op /\ last_op'.op = "append_message")
       => (/\ (last_op'.role = "tool"
               /\ get_by_id(conversations, last_op'.id, last_op'.user_id).found)
              => (last_op'.ok /\ Len(messages') = Len(messages) + 1)
           /\ last_op'.role \notin {"user", "assistant", "tool"}
              => (~last_op'.ok /\ messages' = messages))]_vars

(* the executed calls of earlier rounds of the turn: each left one tool entry
   with its result in the list handed to the next round *)
EarlierExecuted ==
    {k \in (Len(recent_messages) + 1)..Len(agent_messages) :
        agent_messages[k].role = "tool" /\ agent_messages[k].content = "result"}

(* the append the current step of the turn attempts would fail *)
AppendFails(role) ==
    ~append_message(conversations, messages, conversation_id, user_id, role, "", <<>>,
                    Tick(messages)).ok

(* the step hands request idx + 1 of the round to the executor *)
ExecutesNow ==
    /\ pc = "tools"
    /\ idx' = idx + 1
    /\ Cardinality(Executed(tool_calls_made')) > Cardinality(Executed(tool_calls_made))

(* C11: the requests of a round are handled one at a time in request order,
   and the step that executes a request also persists a tool-role message for
   it in the conversation, so the message is stored before the next request
   of the round is executed. *)
C11_ToolMessagePersistedPerCall ==
    [][ExecutesNow
       => (/\ \A j, k \in 1..Len(tool_calls_made') :
                 j < k => tool_calls_made'[j].id <= tool_calls_made'[k].id
           /\ Len(messages') = Len(messages) + 1
           /\ messages'[Len(messages')].role = "tool"
           /\ messages'[Len(messages')].conversation_id = conversation_id)]_vars

(* C12: a turn whose third completion response (retry counter at
   MAX_RETRIES = 2) still requests tools ends as a success whose reply is
   that response's text, and tool_calls_executed holds every call the turn
   executed: those of the earlier rounds and those of the last. *)
C12_BoundStopReportsAllCalls ==
    (/\ pc = "done"
     /\ completion_calls = MAX_RETRIES_ON_INVALID_TOOL_CALL + 1
     /\ response.kind = "ok"
     /\ response.tool_calls # <<>>)
    => (/\ result.success
        /\ result.response = response.content
        /\ Cardinality(Executed(result.tool_calls_executed))
              = Cardinality(EarlierExecuted) + Cardinality(Executed(tool_calls_made)))

(* C13: a request that names an unregistered tool is not handed to the
   executor, leaves a failed record with its id in the round's records, and
   the round goes on. *)
C13_UnknownToolRecordedAsFailed ==
    [][(/\ pc = "tools"
        /\ idx' = idx + 1
        /\ ~validate_tool_name(response.tool_calls[idx + 1].name))
       => (/\ pc' = "tools"
           /\ Cardinality(Executed(tool_calls_made')) = Cardinality(Executed(tool_calls_made))
           /\ \E k \in 1..Len(tool_calls_made') :
                 /\ tool_calls_made'[k].id = response.tool_calls[idx + 1].id
                 /\ "error" \in DOMAIN tool_calls_made'[k])]_vars

(* C14: a call of a registered tool whose raw arguments the validator
   rejects comes back as a failure and leaves the task table as it was, on
   the ToolExecutor path and on the MCP server path. *)
C14_InvalidArgumentsNoMutation ==
    [][(/\ last_op' # last_op
        /\ last_op'.op \in {"executor_execute", "mcp_execute_tool"}
        /\ last_op'.tool \in ToolNames
        /\ validate_tool_input_raises(last_op'.tool, last_op'.input))
       => (~last_op'.success /\ tasks' = tasks)]_vars

(* C15: a step of a turn whose append fails (the user message, a tool-result
   message or the reply) ends the turn with a fallback result, success false,
   and the stored messages stay as they were. *)
C15_PersistenceFailureAborts ==
    [][(\/ (pc = "append_user" /\ pc' # pc /\ AppendFails("user"))
        \/ (ExecutesNow /\ AppendFails("tool"))
        \/ (pc = "persist" /\ pc' # pc /\ AppendFails("assistant")))
       => (/\ pc' = "done"
           /\ ~result'.success
           /\ messages' = messages)]_vars

(* C16: a completion call that times out ends the turn at once with error
   kind timeout, answered 503 by the endpoint, and no stored message is lost. *)
C16_TimeoutSurfacesAs503 ==
    [][(pc = "call" /\ pc' # pc /\ response'.kind = "timeout")
       => (/\ pc' = "done"
           /\ ~result'.success
           /\ result'.error = "timeout"
           /\ entry = "router" => http_status' = 503
           /\ messages' = messages)]_vars

InService == pc \in {"service", "append_user", "load", "call", "tools", "persist"}

(* a result dict: a reply or a fallback reply *)
IsReply(res) == {"success", "response", "conversation_id"} \subseteq DOMAIN res

(* C17: a request handed to process_chat_message always comes to its end, and
   what the service hands back is a result dict (reply or fallback reply),
   never an exception: only the endpoint's own 400 and 403 answers end a
   request without one. *)
C17_TurnAlwaysReturns ==
    /\ [](pc = "done" => IF http_status \in {400, 403}
                         THEN result = NoResultYet
                         ELSE IsReply(result))
    /\ (InService ~> pc = "done")

C17_Witness ==
    /\ pc = "done"
    /\ response.kind = "timeout"
    /\ IsReply(result)
    /\ ~result.success
    /\ result.response = "fallback"

RECURSIVE IsSubsequence(_, _)
IsSubsequence(r, t) ==
    IF r = <<>> THEN TRUE
    ELSE IF t = <<>> THEN FALSE
    ELSE IF Head(r) = Head(t) THEN IsSubsequence(Tail(r), Tail(t))
    ELSE IsSubsequence(r, Tail(t))

(* C18: get_recent_messages(c, u, limit), then a successful
   append_message(c, u, ...), then get_recent_messages(c, u, limit) again:
   the second list contains the message just appended. *)
C18_SecondReadSeesAppend ==
    [][(/\ last_op.op = "append_message"
        /\ last_op.ok
        /\ last_op.after >= 1
        /\ last_op'.op = "get_recent_messages"
        /\ last_op'.id = last_op.id
        /\ last_op'.user_id = last_op.user_id
        /\ last_op'.limit = last_op.after
        /\ get_by_id(conversations, last_op.id, last_op.user_id).found)
       => \E k \in 1..Len(last_op'.result) : last_op'.result[k] = messages[Len(messages)]]_vars

LastN(t, n) == SubSeq(t, Len(t) - Min(Len(t), n) + 1, Len(t))

(* C19: the history a turn loads is the min(n, 50) messages of the
   conversation created last, oldest first, and so ends with the user
   message the turn has just appended. *)
C19_HistoryIsMostRecent ==
    (pc = "call" /\ completion_calls = 0)
    => (/\ recent_messages = LastN(ConvMessages(messages, conversation_id),
                                    MAX_CONVERSATION_HISTORY)
        /\ recent_messages # <<>>
        /\ recent_messages[Len(recent_messages)].role = "user"
        /\ recent_messages[Len(recent_messages)].content = user_message)

(* C20: the list get_recent_messages returns is in non-decreasing created_at
   order and keeps the messages in the order they were appended, also where
   created_at values are equal. *)
C20_RecentMessagesInAppendOrder ==
    [][(last_op' # last_op /\ last_op'.op = "get_recent_messages")
       => (/\ \A j, k \in 1..Len(last_op'.result) :
                 j < k => last_op'.result[j].created_at <= last_op'.result[k].created_at
           /\ IsSubsequence(last_op'.result, messages))]_vars

(* the step persists one message of conversation c *)
Inserted(c) ==
    /\ Len(messages') = Len(messages) + 1
    /\ messages'[Len(messages')].conversation_id = c
    /\ SubSeq(messages', 1, Len(messages)) = messages

(* the step changes updated_at of conversation c, which exists before and after *)
Touched(c) ==
    /\ conversations[c].exists /\ conversations'[c].exists
    /\ conversations'[c].updated_at # conversations[c].updated_at

(* C21: a step that persists a message of a conversation moves that
   conversation's updated_at forward, and message and updated_at change in
   the same step: no state has one without the other. *)
C21_UpdatedAtAdvancesWithInsert ==
    [][\A c \in ConvIds :
          /\ Inserted(c) => conversations'[c].updated_at > conversations[c].updated_at
          /\ Touched(c) => Inserted(c)]_vars

(* C22: every persisted message belongs to a conversation that exists and
   carries that conversation's owner id, whatever appends, deletions and
   turns of either user have been interleaved. *)
C22_MessagesBelongToOwnedConversation ==
    \A k \in 1..Len(messages) :
        /\ Row(conversations, messages[k].conversation_id).exists
        /\ Row(conversations, messages[k].conversation_id).user_id = messages[k].user_id

(* a turn went through while another request appended to the conversation,
   which had been deleted and created anew by then *)
C22_Witness ==
    /\ pc = "done"
    /\ result # NoResultYet
    /\ ~result.success
    /\ messages # <<>>
    /\ \E k \in 1..Len(messages) : messages[k].content = "x"

(* C23: the append of a turn looks the conversation up again: when the
   caller does not own it at that moment, also because it was deleted after
   the turn's ownership check had passed, the append is rejected, the turn
   ends without success, and messages and conversations stay as they were. *)
C23_AppendRechecksOwnership ==
    [][(/\ pc \in {"append_user", "persist"}
        /\ pc' # pc
        /\ ~get_by_id(conversations, conversation_id, user_id).found)
       => (/\ pc' = "done"
           /\ ~result'.success
           /\ messages' = messages
           /\ conversations' = conversations)]_vars

(* the conversation was deleted while the completion call was under way and
   the reply could not be appended *)
C23_Witness ==
    /\ pc = "done"
    /\ completion_calls >= 1
    /\ ~Row(conversations, conversation_id).exists
    /\ result # NoResultYet
    /\ ~result.success
    /\ result.error = "parsing_error"
    /\ messages = <<>>

(* C24: validating a dict that the validator returned succeeds and returns
   that dict again, field for field, for every tool and every raw input the
   validator accepts. *)
C24_ValidateIsIdempotent ==
    [][(last_op'.op = "validate_tool_input" /\ last_op'.again)
       => (~last_op'.raised /\ last_op'.value = last_op'.input)]_vars

(* the error texts that report a rejected input: mcp_server's error type and
   the ToolExecutor's message for a task id that is no UUID *)
ValidationErrors == {"ValidationError", "Validation error: task_id must be a valid UUID"}

(* C25: a complete_task, delete_task or update_task call with a malformed
   task id comes back as a validation error on the ToolExecutor path and on
   the MCP server path: not as a success and not as the outcome of a lookup
   that found no task. *)
C25_MalformedIdIsValidationError ==
    (/\ last_op.op \in {"executor_execute", "mcp_execute_tool"}
     /\ last_op.tool \in {"complete_task", "delete_task", "update_task"}
     /\ "task_id" \in DOMAIN last_op.input
     /\ ~IsUuid(last_op.input.task_id))
    => (~last_op.success /\ last_op.error \in ValidationErrors)

(* the records a round leaves for the requests tcs, computed from the
   requests alone: nothing for an unregistered tool, an error record for
   arguments that are not JSON, and for an executed call its result record
   followed by the error record of the tool-message append *)
RECURSIVE RoundRecords(_)
RoundRecords(tcs) ==
    IF tcs = <<>> THEN <<>>
    ELSE LET tc == Head(tcs)
         IN (IF ~validate_tool_name(tc.name) THEN <<>>
             ELSE IF ~tc.json_ok THEN <<MadeError(tc, "JSONDecodeError")>>
             ELSE <<MadeOk(tc, executor_execute(tc.name, tc.arguments)),
                    MadeError(tc, "ValueError")>>)
            \o RoundRecords(Tail(tcs))

(* C26: no in-process state of a turn is left for the next one (between two
   requests every variable of the turn is back at its initial value), and the
   result of a successful turn is a function of the turn's own input, of
   what the store returned to it and of the completion response it received,
   whatever turns, creations and deletions of either user came before or in
   between. *)
C26_TurnOutcomeFromOwnInputs ==
    /\ pc = "idle" => IdleTurn
    /\ (pc = "done" /\ result # NoResultYet /\ result.success)
       => result = [success |-> TRUE,
                    conversation_id |-> conversation_id,
                    response |-> response.content,
                    tool_calls_executed |->
                        RoundRecords(FirstN(response.tool_calls, MAX_TOOL_CALLS_PER_TURN)),
                    message_count |-> Len(recent_messages) + 2]

(* a turn of u2 has ended in success at the retry bound, with the records of
   the calls it executed *)
C26_Witness ==
    /\ pc = "done"
    /\ result # NoResultYet
    /\ result.success
    /\ result.tool_calls_executed # <<>>
    /\ user_id = "u2"

(* C27: whatever a step of the store or of the loop does, the messages that
   were persisted before it and are still there after it are unchanged: the
   table only grows at its end, or loses the rows of one deleted
   conversation. *)
C27_PersistedMessagesNeverChange ==
    [][\/ /\ Len(messages') >= Len(messages)
          /\ SubSeq(messages', 1, Len(messages)) = messages
       \/ \E c \in ConvIds :
             messages' = SelectSeq(messages, LAMBDA m : m.conversation_id # c)]_vars

(* the turn's user message is still as it was stored, after a later append
   to the same conversation *)
C27_Witness ==
    /\ pc = "done"
    /\ Len(messages) = 2
    /\ messages[1] = NewMessage(conversation_id, user_id, "user", user_message, <<>>,
                                 messages[1].created_at)
    /\ messages[2].conversation_id = conversation_id
    /\ messages[1].created_at < messages[2].created_at

(* C28: a turn that ends in success with a plain reply after one or more
   tool rounds reports every call those rounds executed in
   tool_calls_executed, and stores the same records on the final assistant
   message. *)
C28_PlainReplyReportsAllCalls ==
    (/\ pc = "done"
     /\ result # NoResultYet
     /\ result.success
     /\ response.kind = "ok"
     /\ response.tool_calls = <<>>
     /\ EarlierExecuted # {})
    => (/\ Cardinality(Executed(result.tool_calls_executed)) = Cardinality(EarlierExecuted)
        /\ LET stored == ConvMessages(messages, conversation_id)
           IN /\ stored # <<>>
              /\ stored[Len(stored)].role = "assistant"
              /\ stored[Len(stored)].tool_calls = result.tool_calls_executed)

(* positions of the assistant messages that request tools in a message list *)
Requesting(msgs) == {k \in 1..Len(msgs) : "tool_calls" \in DOMAIN msgs[k]}

(* positions of the tool-role messages that follow the assistant message at
   position a, up to the next assistant message that requests tools *)
ResultsOf(msgs, a) ==
    {k \in (a + 1)..Len(msgs) :
        /\ "tool_call_id" \in DOMAIN msgs[k]
        /\ \A b \in Requesting(msgs) : b > a => k < b}

(* C29: in the message list a follow-up round sends to the completion
   service, every tool-call id an assistant message lists has exactly one
   tool-role result with that id after it, and every tool-role result
   carries an id its assistant message lists; also for requests that were
   over the per-round cap, named an unknown tool, or failed. *)
C29_ToolResultsMatchRequests ==
    (pc = "call" /\ retry_count >= 1)
    => \A a \in Requesting(agent_messages) :
          /\ \A j \in 1..Len(agent_messages[a].tool_calls) :
                Cardinality({k \in ResultsOf(agent_messages, a) :
                                agent_messages[k].tool_call_id
                                   = agent_messages[a].tool_calls[j]}) = 1
          /\ \A k \in ResultsOf(agent_messages, a) :
                \E j \in 1..Len(agent_messages[a].tool_calls) :
                    agent_messages[a].tool_calls[j] = agent_messages[k].tool_call_id

(* C30: the message_count of a successful turn result is the number of
   messages the conversation holds once the turn has finished. *)
C30_MessageCountIsPersistedCount ==
    (pc = "done" /\ result # NoResultYet /\ result.success)
    => result.message_count = Len(ConvMessages(messages, conversation_id))

====
